---- MODULE Spec2Model ----
(***************************************************************************)
(* State-machine model of the response-property driver of Psi4:            *)
(*   psi4/driver/procrouting/response/scf_response.py                      *)
(*       (tdscf_excitations, cpscf_linear_response)                        *)
(*   psi4/driver/p4util/prop_util.py  (free_atom_volumes)                  *)
(* One call of each function is followed from its arguments to its return  *)
(* value or to the exception it raises.                                    *)
(***************************************************************************)
EXTENDS Integers, Sequences, FiniteSets, TLC

VARIABLES
    pc,                 \* position of the call: "start", "validated", "loop", "post", "done", "error", "dist"
    wfn,                \* the reference wavefunction handed to the call
    args,               \* the keyword arguments of the call
    singlets_per_irrep, \* local singlets_per_irrep (line 366-377)
    state_sym,          \* loop variable of the per-irrep loop (0-based)
    engine,             \* the response engine (line 413-416)
    calls,              \* engine / solver invocations, in the order they were made
    ret_stats,          \* ret["stats"] of the latest solver invocation
    results,            \* local _results
    solver_results,     \* the list returned by the call
    wfn_vars,           \* variables published with wfn.set_variable
    err                 \* the exception that ended the call

\* one call of cpscf_linear_response
VARIABLES
    cp_pc,              \* position of the call: "idle", "start", "normalized", "built",
                        \* "transformed", "solved", "done", "error"
    cp_wfn,             \* the reference wavefunction: nmo() and nalpha()
    cp_args,            \* *args
    complete_dict,      \* local complete_dict (line 96)
    n_user,             \* local n_user (line 97)
    vectors,            \* local vectors, the list of lines 131-168
    vector_names,       \* local vector_names
    responses,          \* the list wfn.cphf_solve returned (line 178)
    vectors_d,          \* local vectors after line 181, keyed by name
    responses_d,        \* local responses after line 182, keyed by name
    output,             \* local output, the value returned
    cp_log,             \* integral fetches, projections and solver invocations, in order
    cp_err              \* the exception that ended the call

tdscf_vars == <<pc, wfn, args, singlets_per_irrep, state_sym, engine, calls, ret_stats,
                results, solver_results, wfn_vars, err>>

cpscf_vars == <<cp_pc, cp_wfn, cp_args, complete_dict, n_user, vectors, vector_names,
                responses, vectors_d, responses_d, output, cp_log, cp_err>>

\* the state of a call of free_atom_volumes (prop_util.py)
VARIABLES
    fa_pc,              \* position of the call: "idle", "start", "loop", "done", "error"
    mol,                \* wfn.molecule(): its atoms in order
    REFERENCE,          \* the global option REFERENCE
    user_ref,           \* local user_ref (line 65)
    atom_ids,           \* local atom_ids (lines 69-81), in insertion order
    atom_pos,           \* how many entries of atom_ids the loop of line 86 has gone through
    optstash,           \* local optstash (line 98)
    active_mol,         \* the active molecule (psi4.molutil.activate)
    volumes,            \* the MBIS FREE ATOM ... VOLUME variables set on wfn
    fa_err              \* the exception the call ended with

fav_vars == <<fa_pc, mol, REFERENCE, user_ref, atom_ids, atom_pos, optstash, active_mol,
              volumes, fa_err>>

vars == <<tdscf_vars, cpscf_vars, fav_vars>>

---------------------------------------------------------------------------
(* Bounds of the model *)

\* largest total number of requested states of a modelled call
MaxTotal == 3
\* eigenvalues returned by the solver are drawn from 1..MaxEnergy
MaxEnergy == 2
\* largest scalar `states` the root distribution is tabulated for
MaxDistTotal == 17

\* numbers of irreps of the modelled molecules (Abelian point groups)
NIrreps == {1, 2, 4}
\* numbers of irreps the root distribution is tabulated for
DistIrreps == 1..8

---------------------------------------------------------------------------
(* Values *)

\* an entry of a python list given as `states`: an int, or something else (a str)
IntE(k) == [isint |-> TRUE, v |-> k]
StrE == [isint |-> FALSE, v |-> 0]

\* the `states` argument: a python int, a python list, or a value of another type
StatesInt(k) == [kind |-> "int", n |-> k, items |-> <<>>]
StatesList(s) == [kind |-> "list", n |-> 0, items |-> s]
StatesOther == [kind |-> "other", n |-> 0, items |-> <<>>]

\* wfn.molecule().irrep_labels()
IrrepLabels(n) ==
    CASE n = 1 -> <<"A">>
      [] n = 2 -> <<"Ap", "App">>
      [] n = 4 -> <<"A1", "A2", "B1", "B2">>
      [] OTHER -> <<"Ag", "B1g", "B2g", "B3g", "Au", "B1u", "B2u", "B3u">>

\* wfn.functional(): the kinds of functional the validation tells apart
Functionals == {"HF", "SVWN", "PBE", "TPSS"}
needs_xc(f) == f # "HF"
is_gga(f) == f \in {"PBE", "TPSS"}
is_meta(f) == f = "TPSS"

\* str.lower() on the characters that occur in the modelled guess names
LowerChar(c) ==
    CASE c = "D" -> "d" [] c = "E" -> "e" [] c = "N" -> "n" [] c = "O" -> "o"
      [] c = "M" -> "m" [] c = "I" -> "i" [] c = "A" -> "a" [] c = "T" -> "t"
      [] c = "R" -> "r" [] c = "S" -> "s" [] OTHER -> c
Lower(s) == [i \in DOMAIN s |-> LowerChar(s[i])]

denominators == <<"d","e","n","o","m","i","n","a","t","o","r","s">>
Guesses == { denominators,
             <<"D","e","n","o","m","i","n","a","t","o","r","s">>,
             <<"S","A","D">> }

NoErr == [type |-> "none", msg |-> "", spin |-> "", irrep |-> ""]
NoEngine == [kind |-> "none", ptype |-> "", triplet |-> FALSE, G_gs |-> 0, sym |-> -1]
NoWfn == [nirrep |-> 1, restricted |-> TRUE, functional |-> "HF", energy |-> 0, G_gs |-> 0]
NoArgs == [states |-> StatesInt(0), triplets |-> "none", tda |-> FALSE,
           guess |-> denominators, max_ss_vec |-> 50]

---------------------------------------------------------------------------
(* Root distribution, lines 373-377 *)

\* line 376-377: add one to each of the first k entries
RECURSIVE AddOnes(_, _)
AddOnes(lst, k) ==
    IF k = 0 THEN lst ELSE AddOnes([lst EXCEPT ![k] = @ + 1], k - 1)

\* the distribution without lines 376-377: the remainder is dropped
DistributeNoRemainder(states, nirrep) == [i \in 1..nirrep |-> states \div nirrep]

\* singlets_per_irrep for a scalar `states` (python // and % floor, as \div and % do)
Distribute(states, nirrep) ==
    AddOnes([i \in 1..nirrep |-> states \div nirrep], states % nirrep)

---------------------------------------------------------------------------
(* Validation, lines 361-395 *)

M_states_type == "Number of states must be either an integer or a list of integers"
M_states_len == "States requested do not match with number of irreps"
M_triplets_unrestricted == "Cannot compute triplets with an unrestricted reference"
M_vx_singlets == "Restricted Vx kernel only spin-adapted for singlets"
M_uks_svwn == "Unrestricted Kohn-Sham Vx kernel currently limited to SVWN functional"
M_guess == "Guess type is not valid"

\* line 381
do_triplets(a) == a.triplets # "none"

\* line 390 with the GGA test left out
not_lda_meta_only(w) == is_meta(w.functional)

\* line 390
not_lda(w) == is_gga(w.functional) \/ is_meta(w.functional)

\* the validation without lines 383-384
ValidationFailureNoTripletCheck(w, a) ==
    IF ~(a.states.kind = "int" \/ a.states.kind = "list") THEN M_states_type
    ELSE IF a.states.kind = "list" /\ Len(a.states.items) # w.nirrep THEN M_states_len
    ELSE IF w.restricted /\ needs_xc(w.functional) /\ do_triplets(a) THEN M_vx_singlets
    ELSE IF (~w.restricted) /\ not_lda(w) THEN M_uks_svwn
    ELSE IF Lower(a.guess) # denominators THEN M_guess
    ELSE ""

\* the validation with the guess tested first
ValidationFailureGuessFirst(w, a) ==
    IF Lower(a.guess) # denominators THEN M_guess
    ELSE IF ~(a.states.kind = "int" \/ a.states.kind = "list") THEN M_states_type
    ELSE IF a.states.kind = "list" /\ Len(a.states.items) # w.nirrep THEN M_states_len
    ELSE IF (~w.restricted) /\ do_triplets(a) THEN M_triplets_unrestricted
    ELSE IF w.restricted /\ needs_xc(w.functional) /\ do_triplets(a) THEN M_vx_singlets
    ELSE IF (~w.restricted) /\ not_lda(w) THEN M_uks_svwn
    ELSE ""

\* the message of the ValidationError the call raises, "" when it raises none
ValidationFailure(w, a) ==
    IF ~(a.states.kind = "int" \/ a.states.kind = "list") THEN M_states_type
    ELSE IF a.states.kind = "list" /\ Len(a.states.items) # w.nirrep THEN M_states_len
    ELSE IF (~w.restricted) /\ do_triplets(a) THEN M_triplets_unrestricted
    ELSE IF w.restricted /\ needs_xc(w.functional) /\ do_triplets(a) THEN M_vx_singlets
    ELSE IF (~w.restricted) /\ not_lda(w) THEN M_uks_svwn
    ELSE IF Lower(a.guess) # denominators THEN M_guess
    ELSE ""

\* lines 366-377
SingletsPerIrrep(w, a) ==
    IF a.states.kind = "list" THEN a.states.items
    ELSE LET d == Distribute(a.states.n, w.nirrep) IN [i \in 1..w.nirrep |-> IntE(d[i])]

\* the validation with the engine constructed ahead of the guess test
ValidateEngineFirst ==
    /\ pc = "start"
    /\ UNCHANGED <<cpscf_vars, fav_vars>>
    /\ LET m == ValidationFailure(wfn, args) IN
         IF m # ""
         THEN /\ pc' = "error"
              /\ err' = [type |-> "ValidationError", msg |-> m, spin |-> "", irrep |-> ""]
              /\ engine' = IF m = M_guess
                           THEN [kind |-> IF wfn.restricted THEN "TDRSCFEngine" ELSE "TDUSCFEngine",
                                 ptype |-> IF args.tda THEN "tda" ELSE "rpa",
                                 triplet |-> IF wfn.restricted THEN do_triplets(args) ELSE FALSE,
                                 G_gs |-> wfn.G_gs,
                                 sym |-> -1]
                           ELSE engine
              /\ UNCHANGED singlets_per_irrep
         ELSE /\ pc' = "validated"
              /\ singlets_per_irrep' = SingletsPerIrrep(wfn, args)
              /\ UNCHANGED <<err, engine>>
    /\ UNCHANGED <<wfn, args, state_sym, calls, ret_stats, results,
                   solver_results, wfn_vars>>

\* lines 359-395: validate the request and distribute the roots
Validate ==
    /\ pc = "start"
    /\ UNCHANGED <<cpscf_vars, fav_vars>>
    /\ LET m == ValidationFailure(wfn, args) IN
         IF m # ""
         THEN /\ pc' = "error"
              /\ err' = [type |-> "ValidationError", msg |-> m, spin |-> "", irrep |-> ""]
              /\ UNCHANGED singlets_per_irrep
         ELSE /\ pc' = "validated"
              /\ singlets_per_irrep' = SingletsPerIrrep(wfn, args)
              /\ UNCHANGED err
    /\ UNCHANGED <<wfn, args, state_sym, engine, calls, ret_stats, results,
                   solver_results, wfn_vars>>

\* lines 397-418: choose the problem type, construct the engine, start the loop
ConstructEngine ==
    /\ pc = "validated"
    /\ UNCHANGED <<cpscf_vars, fav_vars>>
    /\ engine' = [kind |-> IF wfn.restricted THEN "TDRSCFEngine" ELSE "TDUSCFEngine",
                  ptype |-> IF args.tda THEN "tda" ELSE "rpa",
                  triplet |-> IF wfn.restricted THEN do_triplets(args) ELSE FALSE,
                  G_gs |-> wfn.G_gs,
                  sym |-> -1]
    /\ results' = <<>>
    /\ state_sym' = 0
    /\ pc' = "loop"
    /\ UNCHANGED <<wfn, args, singlets_per_irrep, calls, ret_stats, solver_results,
                   wfn_vars, err>>

---------------------------------------------------------------------------
(* The per-irrep loop, lines 419-452 *)

\* one entry of `calls`
Event(op, sym, n, isint, vecs, guess, triplet) ==
    [op |-> op, sym |-> sym, n |-> n, isint |-> isint, vecs |-> vecs,
     guess |-> guess, triplet |-> triplet]

\* engine.reset_for_state_symm(state_sym), line 422
ResetEvent(sym) == Event("reset", sym, 0, TRUE, 0, 0, engine.triplet)
\* line 423 with as many trial vectors as states
GuessEventSingle(sym, nstates) ==
    Event("guess", sym, IF nstates.isint THEN nstates.v ELSE 0, nstates.isint, 0, 0,
          engine.triplet)

\* engine.generate_guess(nstates * 2), line 423, made in the symmetry of the latest reset
GuessEvent(sym, nstates) ==
    Event("guess", sym, IF nstates.isint THEN nstates.v * 2 ELSE 0, nstates.isint, 0, 0,
          engine.triplet)
\* solve_function(engine=engine, nroot=nstates, max_vecs_per_root=vecs_per_root, guess=guess_),
\* lines 425-435; `guess` is the position in `calls` of the guess that is passed
SolveEvent(sym, nstates, guess) ==
    Event("solve", sym, nstates.v, TRUE, args.max_ss_vec \div nstates.v, guess, engine.triplet)

\* the convergence records a solver can return, one per iteration: it iterates until
\* done (the last record says so) or until maxiter (no record says so)
StatsValues == { <<[done |-> FALSE], [done |-> TRUE]>>,
                 <<[done |-> FALSE], [done |-> FALSE]>> }

\* line 437 with the test left out
ConvergedAlways(stats) == TRUE

\* line 437 with any returned record taken for convergence
ConvergedLenient(stats) == Len(stats) > 0

\* line 437: ret["stats"][-1]["done"]
Converged(stats) == stats[Len(stats)].done

\* line 439 with "also" taken for a singlet request
SpinNameOnly(a) == IF a.triplets = "only" THEN "triplet" ELSE "singlet"

\* line 439
SpinName(a) == IF do_triplets(a) THEN "triplet" ELSE "singlet"

\* line 440: wfn.molecule().irrep_labels()[state_sym]
IrrepES(w, sym) == IrrepLabels(w.nirrep)[sym + 1]

\* engine.vector_scale(np.sqrt(2.0), X), lines 445-446: a vector scaled once more
vector_scale(X) == [X EXCEPT !.scaled = @ + 1]

\* the (R, L) pair the solver returns for one root: the davidson solver (TDA) returns
\* the right vector twice, the hamiltonian solver (RPA) a right and a left vector
SolverPair(sym, root) ==
    [R |-> [sym |-> sym, root |-> root, side |-> "R", scaled |-> 0],
     L |-> [sym |-> sym, root |-> root, side |-> IF args.tda THEN "R" ELSE "L", scaled |-> 0]]

\* lines 444-452 with line 446 left out: the left vector is not rescaled
BlockResultsRightOnly(sym, eigvals) ==
    [k \in 1..Len(eigvals) |->
        [e |-> eigvals[k],
         R |-> vector_scale(SolverPair(sym, k).R),
         L |-> SolverPair(sym, k).L,
         state_sym |-> sym]]

\* lines 444-452: rescale the eigenvectors of a block and append its roots to _results
BlockResults(sym, eigvals) ==
    [k \in 1..Len(eigvals) |->
        [e |-> eigvals[k],
         R |-> vector_scale(SolverPair(sym, k).R),
         L |-> vector_scale(SolverPair(sym, k).L),
         state_sym |-> sym]]

\* lines 420-421: an irrep with no requested state is skipped
SkipBlock ==
    /\ pc = "loop"
    /\ UNCHANGED <<cpscf_vars, fav_vars>>
    /\ state_sym < Len(singlets_per_irrep)
    /\ singlets_per_irrep[state_sym + 1] = IntE(0)
    /\ state_sym' = state_sym + 1
    /\ UNCHANGED <<pc, wfn, args, singlets_per_irrep, engine, calls, ret_stats, results,
                   solver_results, wfn_vars, err>>

\* lines 422-425 for an entry of `states` that is no int (a str): the guess is asked
\* for with a str, and max_ss_vec // nstates raises a TypeError
BadBlock ==
    /\ pc = "loop"
    /\ UNCHANGED <<cpscf_vars, fav_vars>>
    /\ state_sym < Len(singlets_per_irrep)
    /\ ~singlets_per_irrep[state_sym + 1].isint
    /\ engine' = [engine EXCEPT !.sym = state_sym]
    /\ calls' = calls \o <<ResetEvent(state_sym),
                           GuessEvent(state_sym, singlets_per_irrep[state_sym + 1])>>
    /\ pc' = "error"
    /\ err' = [type |-> "TypeError", msg |-> "unsupported operand type(s) for //",
               spin |-> "", irrep |-> ""]
    /\ UNCHANGED <<wfn, args, singlets_per_irrep, state_sym, ret_stats, results,
                   solver_results, wfn_vars>>

\* lines 422-452 for an irrep with a non-zero count: reset, guess, solve, then either
\* the convergence error or the roots of the block
SolveBlock ==
    /\ pc = "loop"
    /\ UNCHANGED <<cpscf_vars, fav_vars>>
    /\ state_sym < Len(singlets_per_irrep)
    /\ singlets_per_irrep[state_sym + 1].isint
    /\ singlets_per_irrep[state_sym + 1].v # 0
    /\ LET nstates == singlets_per_irrep[state_sym + 1] IN
       \E stats \in StatsValues, eigvals \in [1..nstates.v -> 1..MaxEnergy] :
         /\ engine' = [engine EXCEPT !.sym = state_sym]
         /\ calls' = calls \o <<ResetEvent(state_sym),
                                GuessEvent(state_sym, nstates),
                                SolveEvent(state_sym, nstates, Len(calls) + 2)>>
         /\ ret_stats' = stats
         /\ IF ~Converged(stats)
            THEN /\ pc' = "error"
                 /\ err' = [type |-> "TDSCFConvergenceError", msg |-> "excitations in irrep",
                            spin |-> SpinName(args), irrep |-> IrrepES(wfn, state_sym)]
                 /\ UNCHANGED <<results, state_sym>>
            ELSE /\ results' = results \o BlockResults(state_sym, eigvals)
                 /\ state_sym' = state_sym + 1
                 /\ UNCHANGED <<pc, err>>
    /\ UNCHANGED <<wfn, args, singlets_per_irrep, solver_results, wfn_vars>>

---------------------------------------------------------------------------
(* Merge and post-processing, lines 454-526 *)

\* an insertion that puts an element ahead of the elements of equal energy
RECURSIVE InsertByEnergyTies(_, _)
InsertByEnergyTies(s, x) ==
    IF s = <<>> THEN <<x>>
    ELSE IF x.e <= Head(s).e THEN <<x>> \o s
    ELSE <<Head(s)>> \o InsertByEnergyTies(Tail(s), x)

\* python's sorted(..., key=lambda x: x[0]) is a stable sort on the energy:
\* an element goes behind every element whose energy is not larger
RECURSIVE InsertByEnergy(_, _)
InsertByEnergy(s, x) ==
    IF s = <<>> THEN <<x>>
    ELSE IF x.e < Head(s).e THEN <<x>> \o s
    ELSE <<Head(s)>> \o InsertByEnergy(Tail(s), x)

\* line 455 left out
SortByEnergyNone(s) == s

RECURSIVE SortByEnergy(_)
SortByEnergy(s) ==
    IF s = <<>> THEN <<>>
    ELSE InsertByEnergy(SortByEnergy(SubSeq(s, 1, Len(s) - 1)), s[Len(s)])

\* line 455
Merge ==
    /\ pc = "loop"
    /\ UNCHANGED <<cpscf_vars, fav_vars>>
    /\ state_sym = Len(singlets_per_irrep)
    /\ results' = SortByEnergy(results)
    /\ pc' = "post"
    /\ UNCHANGED <<wfn, args, singlets_per_irrep, state_sym, engine, calls, ret_stats,
                   solver_results, wfn_vars, err>>

\* python's ^ on non-negative ints
RECURSIVE Xor(_, _)
Xor(a, b) ==
    IF a = 0 /\ b = 0 THEN 0
    ELSE (((a % 2) + (b % 2)) % 2) + 2 * Xor(a \div 2, b \div 2)

\* line 487 with the final-state irrep taken for the transition symmetry
IrrepTransFinal(w, G_gs, final_sym) == IrrepLabels(w.nirrep)[final_sym + 1]

\* line 487: the label of the transition symmetry
IrrepTrans(w, G_gs, final_sym) == IrrepLabels(w.nirrep)[Xor(G_gs, final_sym) + 1]

\* line 489: one record of the returned list
Record(E_ex_au, irrep_trans) == [EXCITATION_ENERGY |-> E_ex_au, SYMMETRY |-> irrep_trans]

\* wfn.set_variable(name, value): a variable of that name is replaced
SetVariable(vs, name, value) ==
    {v \in vs : v.name # name} \cup {[name |-> name, value |-> value]}

\* the names of lines 495 and 496, without their fixed words
TotalEnergyName(ssuper_name, root, irrep_ES) ==
    [kind |-> "TOTAL ENERGY", functional |-> ssuper_name, root |-> root, irrep |-> irrep_ES]
ExcitationEnergyName(ssuper_name, root, irrep_ES) ==
    [kind |-> "EXCITATION ENERGY", functional |-> ssuper_name, root |-> root, irrep |-> irrep_ES]

\* lines 485-496 for the roots at positions 0..n-1 of _results
\* lines 485-496 with the root numbered by its 0-based position i instead of i+1
RECURSIVE PublishZeroBased(_, _)
PublishZeroBased(vs, n) ==
    IF n = 0 THEN vs
    ELSE LET r == results[n]
             irrep_ES == IrrepES(wfn, r.state_sym)
             before == PublishZeroBased(vs, n - 1)
             total == SetVariable(before, TotalEnergyName(wfn.functional, n - 1, irrep_ES),
                                  wfn.energy + r.e)
         IN SetVariable(total, ExcitationEnergyName(wfn.functional, n - 1, irrep_ES), r.e)

RECURSIVE Publish(_, _)
Publish(vs, n) ==
    IF n = 0 THEN vs
    ELSE LET r == results[n]
             irrep_ES == IrrepES(wfn, r.state_sym)
             before == Publish(vs, n - 1)
             total == SetVariable(before, TotalEnergyName(wfn.functional, n, irrep_ES),
                                  wfn.energy + r.e)
         IN SetVariable(total, ExcitationEnergyName(wfn.functional, n, irrep_ES), r.e)

\* lines 457-526: build the records, publish the variables, return
PostProcess ==
    /\ pc = "post"
    /\ UNCHANGED <<cpscf_vars, fav_vars>>
    /\ solver_results' = [i \in 1..Len(results) |->
                            Record(results[i].e,
                                   IrrepTrans(wfn, engine.G_gs, results[i].state_sym))]
    /\ wfn_vars' = Publish(wfn_vars, Len(results))
    /\ pc' = "done"
    /\ UNCHANGED <<wfn, args, singlets_per_irrep, state_sym, engine, calls, ret_stats,
                   results, err>>

---------------------------------------------------------------------------
(* The calls that are followed *)

\* python lists of length n whose entries are ints >= 0 or a str, asking for at most
\* `total` states (a str counts as one)
RECURSIVE ListsUpTo(_, _)
ListsUpTo(n, total) ==
    IF n = 0 THEN {<<>>}
    ELSE UNION { {<<IntE(k)>> \o r : r \in ListsUpTo(n - 1, total - k)} : k \in 0..total }
         \cup (IF total >= 1 THEN {<<StrE>> \o r : r \in ListsUpTo(n - 1, total - 1)} ELSE {})

\* the values of `states`: ints, lists of the right length, lists of a wrong length,
\* and a value that is neither
StatesValues(nirrep) ==
    {StatesInt(k) : k \in 0..MaxTotal}
    \cup {StatesList(s) : s \in ListsUpTo(nirrep, MaxTotal)}
    \cup {StatesList([i \in 1..(nirrep - 1) |-> IntE(1)]),
          StatesList([i \in 1..(nirrep + 1) |-> IntE(1)])}
    \cup {StatesOther}

\* wfn.energy()
RefEnergies == {-10}
\* max_ss_vec
MaxSsVecs == {50}

\* cpscf_linear_response has raised nothing; name is what a message names
NoCpErr == [type |-> "none", msg |-> "", name |-> <<>>]
CpValidationError(msg, name) == [type |-> "ValidationError", msg |-> msg, name |-> name]

\* no OptionsState has been bound to optstash
Unbound == [bound |-> FALSE, value |-> ""]

\* no call of free_atom_volumes is under way
FavIdle ==
    /\ fa_pc = "idle"
    /\ mol = <<>>
    /\ REFERENCE = "RHF"
    /\ user_ref = ""
    /\ atom_ids = <<>>
    /\ atom_pos = 0
    /\ optstash = Unbound
    /\ active_mol = "parent"
    /\ volumes = {}
    /\ fa_err = ""

\* no call of cpscf_linear_response is under way
CpscfIdle ==
    /\ cp_pc = "idle"
    /\ cp_wfn = [nmo |-> 0, nalpha |-> 0]
    /\ cp_args = <<>>
    /\ complete_dict = <<>>
    /\ n_user = 0
    /\ vectors = <<>>
    /\ vector_names = <<>>
    /\ responses = <<>>
    /\ vectors_d = <<>>
    /\ responses_d = <<>>
    /\ output = <<>>
    /\ cp_log = <<>>
    /\ cp_err = NoCpErr

Init ==
    /\ CpscfIdle
    /\ FavIdle
    /\ pc = "start"
    /\ wfn \in UNION { [nirrep : {n}, restricted : BOOLEAN, functional : Functionals,
                        energy : RefEnergies, G_gs : {0, n - 1}] : n \in NIrreps }
    /\ args \in UNION { [states : StatesValues(n), triplets : {"none", "only", "also"},
                         tda : BOOLEAN, guess : Guesses, max_ss_vec : MaxSsVecs]
                        : n \in {wfn.nirrep} }
    /\ singlets_per_irrep = <<>>
    /\ state_sym = 0
    /\ engine = NoEngine
    /\ calls = <<>>
    /\ ret_stats = <<>>
    /\ results = <<>>
    /\ solver_results = <<>>
    /\ wfn_vars = {}
    /\ err = NoErr

Next ==
    \/ Validate
    \/ ConstructEngine
    \/ SkipBlock
    \/ BadBlock
    \/ SolveBlock
    \/ Merge
    \/ PostProcess

Spec == Init /\ [][Next]_vars

---------------------------------------------------------------------------
(* The root distribution alone, over every number of irreps *)

InitDist ==
    /\ CpscfIdle
    /\ FavIdle
    /\ pc = "dist"
    /\ \E n \in DistIrreps, total \in 0..MaxDistTotal :
         /\ wfn = [NoWfn EXCEPT !.nirrep = n]
         /\ args = [NoArgs EXCEPT !.states = StatesInt(total)]
    /\ singlets_per_irrep = <<>>
    /\ state_sym = 0
    /\ engine = NoEngine
    /\ calls = <<>>
    /\ ret_stats = <<>>
    /\ results = <<>>
    /\ solver_results = <<>>
    /\ wfn_vars = {}
    /\ err = NoErr

\* lines 373-377 applied to a scalar `states`
DistributeRoots ==
    /\ pc = "dist"
    /\ UNCHANGED <<cpscf_vars, fav_vars>>
    /\ singlets_per_irrep' = SingletsPerIrrep(wfn, args)
    /\ pc' = "distributed"
    /\ UNCHANGED <<wfn, args, state_sym, engine, calls, ret_stats, results,
                   solver_results, wfn_vars, err>>

NextDist == DistributeRoots

SpecDist == InitDist /\ [][NextDist]_vars

---------------------------------------------------------------------------
(* Properties *)

RECURSIVE SumSeq(_)
SumSeq(s) == IF s = <<>> THEN 0 ELSE Head(s) + SumSeq(Tail(s))

\* the per-irrep counts as plain integers
Counts == [i \in 1..Len(singlets_per_irrep) |-> singlets_per_irrep[i].v]

\* C1: for a scalar total >= 0 and 1..8 irreps the per-irrep counts sum to the total,
\* differ by at most 1, and exactly the first (total mod n_irrep) irreps hold
\* floor(total / n_irrep) + 1 while the later ones hold floor(total / n_irrep)
C1_Distribution ==
    pc = "distributed" =>
        LET n == wfn.nirrep
            total == args.states.n
        IN /\ Len(singlets_per_irrep) = n
           /\ \A i \in 1..n : singlets_per_irrep[i].isint
           /\ SumSeq(Counts) = total
           /\ \A i, j \in 1..n : Counts[i] - Counts[j] <= 1
           /\ \A i \in 1..n :
                Counts[i] = IF i <= total % n THEN (total \div n) + 1 ELSE total \div n

\* the example of the docstring: 10 states over the 8 irreps of D2h
C1_Witness ==
    /\ pc = "distributed"
    /\ wfn.nirrep = 8
    /\ args.states.n = 10
    /\ Counts = <<2, 2, 1, 1, 1, 1, 1, 1>>

\* C2: the list a successful call returns is non-decreasing in EXCITATION ENERGY
C2_EnergyOrdered ==
    pc = "done" =>
        \A i, j \in 1..Len(solver_results) :
            i < j => solver_results[i].EXCITATION_ENERGY <= solver_results[j].EXCITATION_ENERGY

\* a returned list in which the sort moved a root of a later irrep ahead of a root of
\* an earlier irrep
C2_Witness ==
    /\ pc = "done"
    /\ Len(solver_results) >= 3
    /\ \E i, j \in 1..Len(results) :
         /\ i < j
         /\ results[i].state_sym > results[j].state_sym
         /\ results[i].e < results[j].e

\* x was collected before y: ascending irrep index, then solver root order
CollectedBefore(x, y) ==
    \/ x.state_sym < y.state_sym
    \/ x.state_sym = y.state_sym /\ x.R.root < y.R.root

\* C3: the merge is a stable sort on the energy alone: roots of equal energy keep the
\* order in which they were collected, and roots of different energies are ordered
\* by their energies whatever their irreps are
C3_StableMerge ==
    pc \in {"post", "done"} =>
        \A i, j \in 1..Len(results) :
            i < j =>
                /\ results[i].e = results[j].e => CollectedBefore(results[i], results[j])
                /\ results[i].e # results[j].e => results[i].e < results[j].e

\* a merged list with a tie between two irreps and with a root of a later irrep ahead
\* of a root of an earlier irrep
C3_Witness ==
    /\ pc = "post"
    /\ \E i, j \in 1..Len(results) :
         /\ i < j
         /\ results[i].e = results[j].e
         /\ results[i].state_sym # results[j].state_sym
    /\ \E i, j \in 1..Len(results) :
         /\ i < j
         /\ results[i].e < results[j].e
         /\ results[i].state_sym > results[j].state_sym

\* the latest solver invocation reported done = false in its last convergence record
LastBlockNotDone == ret_stats # <<>> /\ ~ret_stats[Len(ret_stats)].done

\* C4: when the last convergence record of a block reports done = false the call ends
\* in a convergence error, returns no record and publishes no variable
C4_ConvergenceFailureAborts ==
    LastBlockNotDone =>
        /\ pc = "error"
        /\ err.type = "TDSCFConvergenceError"
        /\ solver_results = <<>>
        /\ wfn_vars = {}

\* a block fails after the blocks of earlier irreps converged and left their roots
C4_Witness ==
    /\ LastBlockNotDone
    /\ pc = "error"
    /\ Len(results) >= 2
    /\ state_sym > 0

\* C5: the convergence error names the spin channel of the block that failed and the
\* label of the irrep of that block, for every value of `triplets`
C5_ConvergenceErrorNamesBlock ==
    err.type = "TDSCFConvergenceError" =>
        LET failed == calls[Len(calls)] IN
        /\ failed.op = "solve"
        /\ err.irrep = IrrepLabels(wfn.nirrep)[failed.sym + 1]
        /\ err.spin = IF failed.triplet THEN "triplet" ELSE "singlet"

\* a block of a later irrep fails in a call with triplets = "also"
C5_Witness ==
    /\ err.type = "TDSCFConvergenceError"
    /\ args.triplets = "also"
    /\ calls[Len(calls)].sym > 0
    /\ err.spin = "triplet"

\* C6: triplets requested ("only" or "also") with an unrestricted reference end the
\* call with a validation error
C6_TripletsUnrestrictedRejected ==
    (pc # "start" /\ ~wfn.restricted /\ args.triplets \in {"only", "also"}) =>
        /\ pc = "error"
        /\ err.type = "ValidationError"

\* the request is rejected for that reason
C6_Witness ==
    /\ pc = "error"
    /\ ~wfn.restricted
    /\ args.triplets = "also"
    /\ err.msg = M_triplets_unrestricted

\* `states` is an int, or a list of ints of length n_irrep
StatesWellFormed ==
    \/ args.states.kind = "int"
    \/ /\ args.states.kind = "list"
       /\ Len(args.states.items) = wfn.nirrep
       /\ \A i \in 1..Len(args.states.items) : args.states.items[i].isint

\* C7: a call whose `states` is neither an int nor a list of ints of length n_irrep
\* (another type, a list of another length, a list of the right length with an entry
\* that is no int) fails with a validation error
C7_StatesRejected ==
    (pc \in {"done", "error"} /\ ~StatesWellFormed) =>
        /\ pc = "error"
        /\ err.type = "ValidationError"

\* C8: a restricted reference whose functional needs an xc kernel is rejected when
\* triplets are requested, an unrestricted reference is rejected when its functional
\* is GGA or meta, and restricted singlets are not rejected for any functional
C8_FunctionalRules ==
    pc # "start" =>
        /\ (wfn.restricted /\ needs_xc(wfn.functional) /\ args.triplets # "none")
              => (pc = "error" /\ err.type = "ValidationError")
        /\ ((~wfn.restricted) /\ (is_gga(wfn.functional) \/ is_meta(wfn.functional)))
              => (pc = "error" /\ err.type = "ValidationError")
        /\ (wfn.restricted /\ args.triplets = "none" /\ err.type = "ValidationError")
              => err.msg \in {M_states_type, M_states_len, M_guess}

\* an unrestricted GGA reference is rejected for its functional
C8_Witness ==
    /\ pc = "error"
    /\ ~wfn.restricted
    /\ wfn.functional = "PBE"
    /\ err.msg = M_uks_svwn

\* guess names "denominators" when compared without regard to case
UpperChar(c) ==
    CASE c = "d" -> "D" [] c = "e" -> "E" [] c = "n" -> "N" [] c = "o" -> "O"
      [] c = "m" -> "M" [] c = "i" -> "I" [] c = "a" -> "A" [] c = "t" -> "T"
      [] c = "r" -> "R" [] c = "s" -> "S" [] OTHER -> c
GuessSupported ==
    /\ Len(args.guess) = Len(denominators)
    /\ \A i \in 1..Len(denominators) :
         args.guess[i] \in {denominators[i], UpperChar(denominators[i])}

\* the validation rules in the order of the specification, each with its message(s)
RuleViolated(k) ==
    CASE k = 1 -> \/ args.states.kind \notin {"int", "list"}
                  \/ args.states.kind = "list" /\ Len(args.states.items) # wfn.nirrep
      [] k = 2 -> args.triplets # "none" /\ ~wfn.restricted
      [] k = 3 -> args.triplets # "none" /\ wfn.restricted /\ needs_xc(wfn.functional)
      [] k = 4 -> (~wfn.restricted) /\ (is_gga(wfn.functional) \/ is_meta(wfn.functional))
      [] OTHER -> ~GuessSupported
RuleMessages(k) ==
    CASE k = 1 -> {M_states_type, M_states_len}
      [] k = 2 -> {M_triplets_unrestricted}
      [] k = 3 -> {M_vx_singlets}
      [] k = 4 -> {M_uks_svwn}
      [] OTHER -> {M_guess}

\* C9: a request that violates validation rules is rejected with the message of the
\* first violated rule in the order states, triplets with unrestricted reference,
\* triplets with restricted xc reference, unrestricted GGA/meta, guess
C9_ValidationOrder ==
    pc # "start" =>
        \A k \in 1..5 :
            (RuleViolated(k) /\ \A j \in 1..(k - 1) : ~RuleViolated(j)) =>
                /\ pc = "error"
                /\ err.type = "ValidationError"
                /\ err.msg \in RuleMessages(k)

\* a request that violates the rules 2, 4 and 5 at once is rejected for rule 2
C9_Witness ==
    /\ pc = "error"
    /\ ~RuleViolated(1) /\ RuleViolated(2) /\ RuleViolated(4) /\ RuleViolated(5)
    /\ err.msg = M_triplets_unrestricted

\* C10: when the call raises a validation error no engine was constructed and no
\* reset, guess generation or solver invocation happened
C10_NoWorkBeforeValidationError ==
    err.type = "ValidationError" =>
        /\ engine = NoEngine
        /\ calls = <<>>
        /\ results = <<>>

\* the last test, of the guess, rejects a request that passed all the others
C10_Witness ==
    /\ err.type = "ValidationError"
    /\ err.msg = M_guess
    /\ engine = NoEngine
    /\ args.states.kind = "list"

\* C11: with triplets = "also" on a restricted reference a successful call has solved,
\* for every irrep with a non-zero count, a singlet block and a triplet block, each
\* with that count as its number of roots
C11_BothSpinChannels ==
    (pc = "done" /\ wfn.restricted /\ args.triplets = "also") =>
        \A s \in 1..Len(singlets_per_irrep) :
            singlets_per_irrep[s].v > 0 =>
                \A t \in BOOLEAN :
                    \E k \in 1..Len(calls) :
                        /\ calls[k].op = "solve"
                        /\ calls[k].sym = s - 1
                        /\ calls[k].triplet = t
                        /\ calls[k].n = singlets_per_irrep[s].v

\* the observables lines 498-514 derive for a root
ObservableKinds ==
    {"ELECTRIC TRANSITION DIPOLE MOMENT (LEN)", "OSCILLATOR STRENGTH (LEN)",
     "ELECTRIC TRANSITION DIPOLE MOMENT (VEL)", "OSCILLATOR STRENGTH (VEL)",
     "MAGNETIC TRANSITION DIPOLE MOMENT", "ROTATORY STRENGTH (LEN)",
     "ROTATORY STRENGTH (VEL)"}

\* C12: a successful call has published, for every merged root, its transition moments,
\* its oscillator strengths in both gauges and its rotatory strengths as variables of
\* the wavefunction, besides its energies
C12_ObservablesPublished ==
    pc = "done" =>
        \A i \in 1..Len(results) :
            \A kind \in ObservableKinds \cup {"TOTAL ENERGY", "EXCITATION ENERGY"} :
                \E v \in wfn_vars : v.name.root = i /\ v.name.kind = kind

\* the variables of a kind published for a root number
PublishedFor(kind, root) == {v \in wfn_vars : v.name.kind = kind /\ v.name.root = root}

\* C13: on success the root at position i (0-based) of the merged list has exactly one
\* TOTAL ENERGY and one EXCITATION ENERGY variable, keyed by i+1 and by the label of its
\* final-state irrep, holding reference energy + E_ex and E_ex; the root numbers are
\* 1..N in non-decreasing energy, and position i of the returned list holds that root
C13_EnergiesPublished ==
    pc = "done" =>
        LET N == Len(results) IN
        /\ Len(solver_results) = N
        /\ \A v \in wfn_vars : v.name.root \in 1..N
        /\ Cardinality(wfn_vars) = 2 * N
        /\ \A i \in 1..N :
             LET label == IrrepLabels(wfn.nirrep)[results[i].state_sym + 1] IN
             /\ solver_results[i].EXCITATION_ENERGY = results[i].e
             /\ PublishedFor("TOTAL ENERGY", i) =
                   {[name |-> [kind |-> "TOTAL ENERGY", functional |-> wfn.functional,
                               root |-> i, irrep |-> label],
                     value |-> wfn.energy + results[i].e]}
             /\ PublishedFor("EXCITATION ENERGY", i) =
                   {[name |-> [kind |-> "EXCITATION ENERGY", functional |-> wfn.functional,
                               root |-> i, irrep |-> label],
                     value |-> results[i].e]}
             /\ \A j \in 1..N : i < j => results[i].e <= results[j].e

\* three published roots, the first of them from the last irrep
C13_Witness ==
    /\ pc = "done"
    /\ Len(results) = 3
    /\ results[1].state_sym = wfn.nirrep - 1
    /\ results[3].state_sym = 0
    /\ Cardinality(wfn_vars) = 6

---------------------------------------------------------------------------
(* The post-processing of one converged root, over every Abelian point group *)

\* numbers of irreps of the Abelian point groups
SymIrreps == {1, 2, 4, 8}

\* the call has solved one root in irrep final_sym and merged it (line 455 passed)
InitSym ==
    \E n \in SymIrreps :
    \E G_gs \in 0..(n - 1), final_sym \in 0..(n - 1), e \in 1..MaxEnergy :
        /\ pc = "post"
        /\ wfn = [nirrep |-> n, restricted |-> TRUE, functional |-> "HF",
                  energy |-> -10, G_gs |-> G_gs]
        /\ args = [NoArgs EXCEPT !.states =
                      StatesList([i \in 1..n |-> IntE(IF i = final_sym + 1 THEN 1 ELSE 0)])]
        /\ singlets_per_irrep = args.states.items
        /\ state_sym = n
        /\ engine = [kind |-> "TDRSCFEngine", ptype |-> "rpa", triplet |-> FALSE,
                     G_gs |-> G_gs, sym |-> final_sym]
        /\ calls = <<Event("reset", final_sym, 0, TRUE, 0, 0, FALSE),
                     Event("guess", final_sym, 2, TRUE, 0, 0, FALSE),
                     Event("solve", final_sym, 1, TRUE, 50, 2, FALSE)>>
        /\ ret_stats = <<[done |-> FALSE], [done |-> TRUE]>>
        /\ results = <<[e |-> e,
                        R |-> [sym |-> final_sym, root |-> 1, side |-> "R", scaled |-> 1],
                        L |-> [sym |-> final_sym, root |-> 1, side |-> "L", scaled |-> 1],
                        state_sym |-> final_sym]>>
        /\ solver_results = <<>>
        /\ wfn_vars = {}
        /\ err = NoErr
        /\ CpscfIdle
        /\ FavIdle

NextSym == PostProcess

SpecSym == InitSym /\ [][NextSym]_vars

\* the bits of an irrep index, and the index whose bits are those set in exactly one
\* of two indices
Bits(a) == {k \in 0..2 : (a \div (2 ^ k)) % 2 = 1}
RECURSIVE SumBits(_)
SumBits(S) == IF S = {} THEN 0 ELSE LET k == CHOOSE x \in S : TRUE IN (2 ^ k) + SumBits(S \ {k})
XorOfBits(a, b) == SumBits((Bits(a) \ Bits(b)) \cup (Bits(b) \ Bits(a)))

\* C14: the SYMMETRY of a record is the label of the irrep whose index is the bitwise
\* XOR of the ground-state and the final-state irrep index; for 1, 2, 4 or 8 irreps
\* that index is a valid irrep index, and it is the final-state index exactly when the
\* ground state is totally symmetric
C14_TransitionSymmetry ==
    pc = "done" =>
        \A i \in 1..Len(solver_results) :
            LET x == XorOfBits(engine.G_gs, results[i].state_sym) IN
            /\ x \in 0..(wfn.nirrep - 1)
            /\ solver_results[i].SYMMETRY = IrrepLabels(wfn.nirrep)[x + 1]
            /\ (x = results[i].state_sym) <=> (engine.G_gs = 0)

\* D2h, ground state in irrep 5, final state in irrep 3: the transition is of irrep 6
C14_Witness ==
    /\ pc = "done"
    /\ wfn.nirrep = 8
    /\ engine.G_gs = 5
    /\ results[1].state_sym = 3
    /\ solver_results[1].SYMMETRY = "B2u"

---------------------------------------------------------------------------
(***************************************************************************)
(* cpscf_linear_response, lines 69-212                                     *)
(***************************************************************************)

\* largest number of arguments of a modelled call
MaxArgs == 2
\* largest number of vectors in a list or tuple argument
MaxVecs == 2

\* wfn.nmo() and wfn.nalpha() of the modelled reference wavefunctions
CpWfns == { [nmo |-> 3, nalpha |-> 1] }

\* lines 156-158: nbf = wfn.nmo(), ndocc = wfn.nalpha(), nvirt = nbf - ndocc
AoShape(w) == <<w.nmo, w.nmo>>
MoShape(w) == <<w.nalpha, w.nmo - w.nalpha>>
\* a shape that is neither
OtherShape(w) == <<w.nalpha, w.nmo>>

\* lines 39-60: the property dictionaries
dipole ==
    [name |-> "Dipole polarizabilities",
     printout_labels |-> <<"X", "Y", "Z">>,
     mints_function |-> "ao_dipole",
     vector_names |-> << <<"AO Mux">>, <<"AO Muy">>, <<"AO Muz">> >>,
     length |-> -1, vectors |-> <<>>]
quadrupole ==
    [name |-> "Quadrupole polarizabilities",
     printout_labels |-> <<"XX", "XY", "XZ", "YY", "YZ", "ZZ">>,
     mints_function |-> "ao_quadrupole",
     vector_names |-> << <<"AO Quadrupole ", "XX">>, <<"AO Quadrupole ", "XY">>,
                         <<"AO Quadrupole ", "XZ">>, <<"AO Quadrupole ", "YY">>,
                         <<"AO Quadrupole ", "YZ">>, <<"AO Quadrupole ", "ZZ">> >>,
     length |-> -1, vectors |-> <<>>]
traceless_quadrupole ==
    [name |-> "Traceless quadrupole polarizabilities",
     printout_labels |-> <<"XX", "XY", "XZ", "YY", "YZ", "ZZ">>,
     mints_function |-> "ao_traceless_quadrupole",
     vector_names |-> << <<"AO Traceless Quadrupole ", "XX">>, <<"AO Traceless Quadrupole ", "XY">>,
                         <<"AO Traceless Quadrupole ", "XZ">>, <<"AO Traceless Quadrupole ", "YY">>,
                         <<"AO Traceless Quadrupole ", "YZ">>, <<"AO Traceless Quadrupole ", "ZZ">> >>,
     length |-> -1, vectors |-> <<>>]

\* what dict.get returns for a missing key
None == [name |-> "", printout_labels |-> <<>>, mints_function |-> "",
         vector_names |-> <<>>, length |-> -1, vectors |-> <<>>]

\* lines 62-66 with an unknown keyword answered by the dipole dictionary
property_dicts_get_default(key) ==
    CASE key = "QUADRUPOLE_POLARIZABILITIES" -> quadrupole
      [] key = "TRACELESS_QUADRUPOLE_POLARIZABILITIES" -> traceless_quadrupole
      [] OTHER -> dipole

\* lines 62-66, 103: property_dicts.get(arg)
property_dicts_get(key) ==
    CASE key = "DIPOLE_POLARIZABILITIES" -> dipole
      [] key = "QUADRUPOLE_POLARIZABILITIES" -> quadrupole
      [] key = "TRACELESS_QUADRUPOLE_POLARIZABILITIES" -> traceless_quadrupole
      [] OTHER -> None

\* the messages of lines 107, 150, 172 without their formatted fields
M_NotUnderstood == "Do not understand {}. Abort."
M_NoVectors == "I have no vectors to work with. Aborting."
M_BadShape == "ERROR: {} has an unrecognized shape."

\* str.format of a non-negative int: its decimal digits
Digit(d) == <<"0", "1", "2", "3", "4", "5", "6", "7", "8", "9">>[d + 1]
RECURSIVE Str(_)
Str(n) == IF n < 10 THEN <<Digit(n)>> ELSE Str(n \div 10) \o <<Digit(n % 10)>>

\* line 115 with the count of earlier user vectors left out of the name
ListVectorNameNoCount(n, i) == <<"User Vector ">> \o Str(i)

\* line 115: 'User Vector {}_{}'.format(n_user, i)
ListVectorName(n, i) == <<"User Vector ">> \o Str(n) \o <<"_">> \o Str(i)
\* line 126: 'User Vector {}'.format(n_user)
SingleVectorName(n) == <<"User Vector ">> \o Str(n)

\* a matrix the caller passes: element elem of argument arg (1-based), of some shape;
\* writes counts the in-place modifications of the matrix object since it was made
UserVector(arg, elem, shape) ==
    [src |-> "user", arg |-> arg, elem |-> elem, name |-> <<>>, shape |-> shape,
     scale |-> 1, proj |-> FALSE, writes |-> 0]

\* an argument: a str, a list or tuple of matrices, or a single matrix
StrArg(key) == [kind |-> "str", key |-> key, vecs |-> <<>>]
SeqArg(kind, shapes) == [kind |-> kind, key |-> "", vecs |-> shapes]
VectorArg(shape) == [kind |-> "vector", key |-> "", vecs |-> <<shape>>]

\* lines 99-128 for the argument at position p, given the outcome for those before it
Absorb(prev, arg, p) ==
    IF arg.kind = "str"
    THEN LET ret == property_dicts_get(arg.key) IN
         IF ret # None
         THEN [prev EXCEPT !.complete_dict = Append(@, ret)]
         ELSE [prev EXCEPT !.err = CpValidationError(M_NotUnderstood, <<arg.key>>)]
    ELSE IF arg.kind \in {"tuple", "list"}
    THEN [prev EXCEPT
            !.complete_dict = Append(@,
                [name |-> "User Vectors",
                 length |-> Len(arg.vecs),
                 vectors |-> [i \in 1..Len(arg.vecs) |-> UserVector(p, i, arg.vecs[i])],
                 vector_names |-> [i \in 1..Len(arg.vecs) |-> ListVectorName(prev.n_user, i - 1)],
                 mints_function |-> "", printout_labels |-> <<>>]),
            !.n_user = @ + Len(arg.vecs)]
    ELSE [prev EXCEPT
            !.complete_dict = Append(@,
                [name |-> "User Vector",
                 length |-> 0,
                 vectors |-> <<UserVector(p, 1, arg.vecs[1])>>,
                 vector_names |-> <<SingleVectorName(prev.n_user)>>,
                 mints_function |-> "", printout_labels |-> <<>>]),
            !.n_user = @ + 1]

\* lines 95-128: the loop over the arguments, stopped by the first exception
RECURSIVE Normalized(_, _)
Normalized(as, k) ==
    IF k = 0 THEN [err |-> NoCpErr, complete_dict |-> <<>>, n_user |-> 0]
    ELSE LET prev == Normalized(as, k - 1) IN
         IF prev.err # NoCpErr THEN prev ELSE Absorb(prev, as[k], k)

\* lines 93-128
Normalize ==
    /\ cp_pc = "start"
    /\ UNCHANGED <<tdscf_vars, fav_vars>>
    /\ LET r == Normalized(cp_args, Len(cp_args)) IN
         IF r.err # NoCpErr
         THEN /\ cp_pc' = "error"
              /\ cp_err' = r.err
              /\ UNCHANGED <<complete_dict, n_user>>
         ELSE /\ cp_pc' = "normalized"
              /\ complete_dict' = r.complete_dict
              /\ n_user' = r.n_user
              /\ UNCHANGED cp_err
    /\ UNCHANGED <<cp_wfn, cp_args, vectors, vector_names, responses, vectors_d,
                   responses_d, output, cp_log>>

\* what happens to matrices during a call, in order
CpEvent(op, name, vecs) == [op |-> op, name |-> name, vectors |-> vecs]

\* the matrices a MintsHelper integral function returns: AO-basis, named, unscaled
mints_function(fn, w) ==
    LET names == CASE fn = "ao_dipole" -> dipole.vector_names
                   [] fn = "ao_quadrupole" -> quadrupole.vector_names
                   [] fn = "ao_traceless_quadrupole" -> traceless_quadrupole.vector_names
    IN [i \in 1..Len(names) |->
          [src |-> "mints", arg |-> 0, elem |-> i, name |-> names[i], shape |-> AoShape(w),
           scale |-> 1, proj |-> FALSE, writes |-> 0]]

\* line 144, tmp.scale(c): a statement whose value is dropped, after which the same
\* object tmp is appended; it takes effect by overwriting the matrix
Scale(v, c) == [v EXCEPT !.scale = @ * c, !.writes = @ + 1]

\* lines 135, 189: 'User' in prop['name']
HasUser(name) == name \in {"User Vectors", "User Vector"}

\* zip(a, b): as long as the shorter of the two
ZipLen(a, b) == IF Len(a) < Len(b) THEN Len(a) ELSE Len(b)

\* lines 135-146 without line 144: the integrals are not scaled
CollectUnscaled(prev, prop, w) ==
    IF HasUser(prop.name)
    THEN LET n == ZipLen(prop.vector_names, prop.vectors) IN
         [prev EXCEPT !.vectors = @ \o [i \in 1..n |-> prop.vectors[i]],
                      !.vector_names = @ \o [i \in 1..n |-> prop.vector_names[i]]]
    ELSE LET tmp_vectors == mints_function(prop.mints_function, w)
             n == Len(tmp_vectors) IN
         [prev EXCEPT !.vectors = @ \o tmp_vectors,
                      !.vector_names = @ \o [i \in 1..n |-> tmp_vectors[i].name],
                      !.log = Append(@, CpEvent("fetch", <<prop.mints_function>>, <<>>))]

\* lines 135-146: the vectors and names one descriptor contributes
Collect(prev, prop, w) ==
    IF HasUser(prop.name)
    THEN LET n == ZipLen(prop.vector_names, prop.vectors) IN
         [prev EXCEPT !.vectors = @ \o [i \in 1..n |-> prop.vectors[i]],
                      !.vector_names = @ \o [i \in 1..n |-> prop.vector_names[i]]]
    ELSE LET tmp_vectors == mints_function(prop.mints_function, w)
             n == Len(tmp_vectors) IN
         [prev EXCEPT !.vectors = @ \o [i \in 1..n |-> Scale(tmp_vectors[i], -2)],
                      !.vector_names = @ \o [i \in 1..n |-> tmp_vectors[i].name],
                      !.log = @ \o <<CpEvent("fetch", <<prop.mints_function>>, <<>>)>>
                                \o [i \in 1..n |-> CpEvent("scale", tmp_vectors[i].name, <<>>)]]

\* lines 131-146: the loop over complete_dict
RECURSIVE Collected(_, _, _)
Collected(cd, k, w) ==
    IF k = 0 THEN [vectors |-> <<>>, vector_names |-> <<>>, log |-> <<>>]
    ELSE Collect(Collected(cd, k - 1, w), cd[k], w)

\* line 149 never true
NoVectorsNever(vs) == FALSE

\* line 149: len(vectors) == 0
NoVectors(vs) == Len(vs) = 0

\* lines 131-150
BuildVectors ==
    /\ cp_pc = "normalized"
    /\ UNCHANGED <<tdscf_vars, fav_vars>>
    /\ LET r == Collected(complete_dict, Len(complete_dict), cp_wfn) IN
         /\ vectors' = r.vectors
         /\ vector_names' = r.vector_names
         /\ cp_log' = cp_log \o r.log
         /\ IF NoVectors(r.vectors)
            THEN /\ cp_pc' = "error"
                 /\ cp_err' = CpValidationError(M_NoVectors, <<>>)
            ELSE /\ cp_pc' = "built"
                 /\ UNCHANGED cp_err
    /\ UNCHANGED <<cp_wfn, cp_args, complete_dict, n_user, responses, vectors_d,
                   responses_d, output>>

\* core.triplet(c_occ, v, c_vir, True, False, False): a new (ndocc, nvirt) matrix C_occ^T v C_vir
Project(v, w) == [v EXCEPT !.shape = MoShape(w), !.proj = TRUE, !.writes = 0]

\* lines 165-173 with the shape check of line 171 left out
TransformOneUnchecked(prev, v, name, w) ==
    IF v.shape = AoShape(w)
    THEN [prev EXCEPT !.vectors = Append(@, Project(v, w)),
                      !.log = Append(@, CpEvent("project", name, <<>>))]
    ELSE [prev EXCEPT !.vectors = Append(@, v)]

\* lines 165-173 for one vector
TransformOne(prev, v, name, w) ==
    IF v.shape = AoShape(w)
    THEN [prev EXCEPT !.vectors = Append(@, Project(v, w)),
                      !.log = Append(@, CpEvent("project", name, <<>>))]
    ELSE IF v.shape # MoShape(w)
    THEN [prev EXCEPT !.err = CpValidationError(M_BadShape, name)]
    ELSE [prev EXCEPT !.vectors = Append(@, v)]

\* lines 164-173: the loop over the vectors, stopped by the first exception
RECURSIVE Transformed(_, _, _, _)
Transformed(vs, names, k, w) ==
    IF k = 0 THEN [err |-> NoCpErr, vectors |-> <<>>, log |-> <<>>]
    ELSE LET prev == Transformed(vs, names, k - 1, w) IN
         IF prev.err # NoCpErr THEN prev ELSE TransformOne(prev, vs[k], names[k], w)

\* lines 152-173
Transform ==
    /\ cp_pc = "built"
    /\ UNCHANGED <<tdscf_vars, fav_vars>>
    /\ LET r == Transformed(vectors, vector_names, Len(vectors), cp_wfn) IN
         /\ cp_log' = cp_log \o r.log
         /\ vectors' = r.vectors \o SubSeq(vectors, Len(r.vectors) + 1, Len(vectors))
         /\ IF r.err # NoCpErr
            THEN /\ cp_pc' = "error"
                 /\ cp_err' = r.err
            ELSE /\ cp_pc' = "transformed"
                 /\ UNCHANGED cp_err
    /\ UNCHANGED <<cp_wfn, cp_args, complete_dict, n_user, vector_names, responses,
                   vectors_d, responses_d, output>>

\* wfn.cphf_solve(vectors, ...): one response per input vector, at the same index
cphf_solve(vs) == [i \in 1..Len(vs) |-> [idx |-> i, of |-> vs[i]]]

\* the last position at which name occurs in names
LastIndex(names, name) ==
    CHOOSE i \in 1..Len(names) :
        /\ names[i] = name
        /\ \A j \in (i + 1)..Len(names) : names[j] # name

\* lines 181-182: {k: v for k, v in zip(keys, vals)}, a later pair replacing an earlier one
DictZip(keys, vals) ==
    LET n == ZipLen(keys, vals)
        ks == SubSeq(keys, 1, n)
    IN [name \in {ks[i] : i \in 1..n} |-> vals[LastIndex(ks, name)]]

\* lines 175-182
Solve ==
    /\ cp_pc = "transformed"
    /\ UNCHANGED <<tdscf_vars, fav_vars>>
    /\ LET rs == cphf_solve(vectors) IN
         /\ responses' = rs
         /\ vectors_d' = DictZip(vector_names, vectors)
         /\ responses_d' = DictZip(vector_names, rs)
    /\ cp_log' = Append(cp_log, CpEvent("solve", <<>>, vectors))
    /\ cp_pc' = "solved"
    /\ UNCHANGED <<cp_wfn, cp_args, complete_dict, n_user, vectors, vector_names,
                   output, cp_err>>

\* an entry of the returned list: a response, a list of responses or a tensor
OutVector(r) == [form |-> "vector", dim |-> 0, items |-> <<r>>]
OutList(rs) == [form |-> "list", dim |-> Len(rs), items |-> rs]
OutTensor(rows) == [form |-> "tensor", dim |-> Len(rows), items |-> rows]

\* line 206 with the indices exchanged
TensorEntrySwapped(vs, rs, i_name, j_name) ==
    [coef |-> -1, vec |-> vs[j_name], resp |-> rs[i_name]]

\* line 206: -1.0 * vectors[i_name].vector_dot(responses[j_name])
TensorEntry(vs, rs, i_name, j_name) ==
    [coef |-> -1, vec |-> vs[i_name], resp |-> rs[j_name]]

\* lines 189-208: the entry one descriptor contributes, or the exception it ends in
OutputEntry(prop, vs, rs) ==
    IF HasUser(prop.name)
    THEN IF prop.length = 0
         THEN IF Len(prop.vector_names) = 0
              THEN [err |-> [type |-> "IndexError", msg |-> "list index out of range",
                             name |-> <<>>],
                    entry |-> OutList(<<>>)]
              ELSE [err |-> NoCpErr, entry |-> OutVector(rs[prop.vector_names[1]])]
         ELSE [err |-> NoCpErr,
               entry |-> OutList([i \in 1..Len(prop.vector_names) |-> rs[prop.vector_names[i]]])]
    ELSE LET names == prop.vector_names
             dim == Len(names) IN
         [err |-> NoCpErr,
          entry |-> OutTensor([i \in 1..dim |-> [j \in 1..dim |->
                                  TensorEntry(vs, rs, names[i], names[j])]])]

\* lines 185-208: the loop over complete_dict, stopped by the first exception
RECURSIVE Assembled(_, _, _, _)
Assembled(cd, k, vs, rs) ==
    IF k = 0 THEN [err |-> NoCpErr, output |-> <<>>]
    ELSE LET prev == Assembled(cd, k - 1, vs, rs) IN
         IF prev.err # NoCpErr THEN prev
         ELSE LET e == OutputEntry(cd[k], vs, rs) IN
              IF e.err # NoCpErr THEN [prev EXCEPT !.err = e.err]
              ELSE [prev EXCEPT !.output = Append(@, e.entry)]

\* lines 184-212
Assemble ==
    /\ cp_pc = "solved"
    /\ UNCHANGED <<tdscf_vars, fav_vars>>
    /\ LET r == Assembled(complete_dict, Len(complete_dict), vectors_d, responses_d) IN
         IF r.err # NoCpErr
         THEN /\ cp_pc' = "error"
              /\ cp_err' = r.err
              /\ UNCHANGED output
         ELSE /\ cp_pc' = "done"
              /\ output' = r.output
              /\ UNCHANGED cp_err
    /\ UNCHANGED <<cp_wfn, cp_args, complete_dict, n_user, vectors, vector_names,
                   responses, vectors_d, responses_d, cp_log>>

\* the strings a caller passes: the registered keywords and one that is not registered
CpKeywords == {"DIPOLE_POLARIZABILITIES", "QUADRUPOLE_POLARIZABILITIES",
               "TRACELESS_QUADRUPOLE_POLARIZABILITIES", "HYPERPOLARIZABILITIES"}

\* the shapes of the matrices a caller passes
CpShapes(w) == {AoShape(w), MoShape(w), OtherShape(w)}

\* the sequences of at most n members of S
SeqsUpTo(S, n) == UNION { [1..k -> S] : k \in 0..n }

\* the arguments a caller passes
CpArgValues(w) ==
    {StrArg(k) : k \in CpKeywords}
    \cup {VectorArg(s) : s \in CpShapes(w)}
    \cup {SeqArg("list", l) : l \in SeqsUpTo(CpShapes(w), MaxVecs)}
    \cup {SeqArg("tuple", l) : l \in SeqsUpTo({MoShape(w)}, MaxVecs)}

\* the tdscf variables while no tdscf_excitations call is under way
TdscfIdle ==
    /\ pc = "idle"
    /\ wfn = NoWfn
    /\ args = NoArgs
    /\ singlets_per_irrep = <<>>
    /\ state_sym = 0
    /\ engine = NoEngine
    /\ calls = <<>>
    /\ ret_stats = <<>>
    /\ results = <<>>
    /\ solver_results = <<>>
    /\ wfn_vars = {}
    /\ err = NoErr

\* a call cpscf_linear_response(wfn, *args)
InitCpscf ==
    /\ TdscfIdle
    /\ FavIdle
    /\ cp_pc = "start"
    /\ cp_wfn \in CpWfns
    /\ cp_args \in SeqsUpTo(CpArgValues(cp_wfn), MaxArgs)
    /\ complete_dict = <<>>
    /\ n_user = 0
    /\ vectors = <<>>
    /\ vector_names = <<>>
    /\ responses = <<>>
    /\ vectors_d = <<>>
    /\ responses_d = <<>>
    /\ output = <<>>
    /\ cp_log = <<>>
    /\ cp_err = NoCpErr

NextCpscf ==
    \/ Normalize
    \/ BuildVectors
    \/ Transform
    \/ Solve
    \/ Assemble

SpecCpscf == InitCpscf /\ [][NextCpscf]_vars

---------------------------------------------------------------------------
(***************************************************************************)
(* Properties of cpscf_linear_response                                     *)
(***************************************************************************)

\* the keywords the documentation of cpscf_linear_response registers
RegisteredKeywords == {"DIPOLE_POLARIZABILITIES", "QUADRUPOLE_POLARIZABILITIES",
                       "TRACELESS_QUADRUPOLE_POLARIZABILITIES"}
UnknownAt(p) == cp_args[p].kind = "str" /\ cp_args[p].key \notin RegisteredKeywords
LoggedOps == {cp_log[i].op : i \in 1..Len(cp_log)}

\* C15: a call whose argument list holds, at any position, a string that is not a
\* registered keyword ends in a validation error, and no integral has been fetched
\* and the solver has not been called when it does.
C15_UnknownKeywordRejected ==
    ((\E p \in 1..Len(cp_args) : UnknownAt(p)) /\ cp_pc # "start")
        => /\ cp_pc = "error"
           /\ cp_err.type = "ValidationError"
           /\ cp_err.msg = M_NotUnderstood
           /\ LoggedOps = {}
           /\ responses = <<>>

\* an unregistered string after a registered keyword has been rejected
C15_Witness ==
    /\ cp_pc = "error"
    /\ Len(cp_args) = 2
    /\ cp_args[1] = StrArg("DIPOLE_POLARIZABILITIES")
    /\ UnknownAt(2)
    /\ cp_err.type = "ValidationError"

EmptySeqAt(p) == cp_args[p].kind \in {"list", "tuple"} /\ Len(cp_args[p].vecs) = 0

\* C16: a call whose arguments yield no vector at all, the empty argument list and
\* an argument list of empty lists and tuples alike, ends in a validation error
\* and the CPHF solver is not called.
C16_NoVectorsRejected ==
    ((\A p \in 1..Len(cp_args) : EmptySeqAt(p)) /\ cp_pc \notin {"start", "normalized"})
        => /\ cp_pc = "error"
           /\ cp_err = CpValidationError(M_NoVectors, <<>>)
           /\ "solve" \notin LoggedOps
           /\ responses = <<>>

\* an empty list and an empty tuple have been rejected
C16_Witness ==
    /\ cp_pc = "error"
    /\ cp_args = <<SeqArg("list", <<>>), SeqArg("tuple", <<>>)>>
    /\ cp_err.msg = M_NoVectors

\* the number of integral matrices behind a registered keyword
KeywordDim(key) == IF key = "DIPOLE_POLARIZABILITIES" THEN 3 ELSE 6

\* the shapes of the vectors the first k arguments stand for, as they come in
RECURSIVE ShapesOfArgs(_)
ShapesOfArgs(k) ==
    IF k = 0 THEN <<>>
    ELSE ShapesOfArgs(k - 1) \o
         (IF cp_args[k].kind = "str"
          THEN [i \in 1..KeywordDim(cp_args[k].key) |-> AoShape(cp_wfn)]
          ELSE cp_args[k].vecs)
OrigShapes == ShapesOfArgs(Len(cp_args))
NoUnknown == \A p \in 1..Len(cp_args) : ~UnknownAt(p)
SolveEvents == {i \in 1..Len(cp_log) : cp_log[i].op = "solve"}

\* C17: once the shapes have been looked at, a vector that came in as (nbf, nbf)
\* has been replaced by its projection, one that came in as (ndocc, nvirt) is the
\* vector that came in, and a call with a vector of another shape has ended in a
\* validation error naming the first such vector; every vector of every solver
\* call has shape (ndocc, nvirt).
C17_ShapesHandled ==
    LET orig == OrigShapes
        bad == {i \in 1..Len(orig) : orig[i] \notin {AoShape(cp_wfn), MoShape(cp_wfn)}}
    IN /\ (NoUnknown /\ Len(orig) > 0 /\ cp_pc \notin {"start", "normalized", "built"})
            => /\ Len(vectors) = Len(orig)
               /\ IF bad # {}
                  THEN /\ cp_pc = "error"
                       /\ \E i \in bad :
                            /\ \A j \in bad : i <= j
                            /\ cp_err = CpValidationError(M_BadShape, vector_names[i])
                       /\ SolveEvents = {}
                  ELSE \A i \in 1..Len(orig) :
                            /\ vectors[i].shape = MoShape(cp_wfn)
                            /\ vectors[i].proj <=> (orig[i] = AoShape(cp_wfn))
                            /\ (orig[i] = MoShape(cp_wfn)) =>
                                  \E p \in 1..Len(cp_args), e \in 1..MaxVecs + 1 :
                                      vectors[i] = UserVector(p, e, MoShape(cp_wfn))
       /\ \A s \in SolveEvents : \A i \in 1..Len(cp_log[s].vectors) :
              cp_log[s].vectors[i].shape = MoShape(cp_wfn)

\* a list of an AO-basis and an MO-basis vector went through: the first was
\* projected, the second was not
C17_Witness ==
    /\ cp_pc = "done"
    /\ cp_args = <<SeqArg("list", <<AoShape(cp_wfn), MoShape(cp_wfn)>>)>>
    /\ vectors[1].proj /\ vectors[1].shape = MoShape(cp_wfn)
    /\ vectors[2] = UserVector(1, 2, MoShape(cp_wfn))

\* the response at position i of a list stands for element i of argument p
ResponseOfElement(r, p, i) ==
    /\ r.of.src = "user"
    /\ r.of.arg = p
    /\ r.of.elem = i

\* the output entry of argument p has the form the argument calls for
MirrorsArgument(p) ==
    LET arg == cp_args[p]
        out == output[p]
    IN CASE arg.kind = "vector" ->
              /\ out.form = "vector"
              /\ ResponseOfElement(out.items[1], p, 1)
         [] arg.kind \in {"list", "tuple"} ->
              /\ out.form = "list"
              /\ Len(out.items) = Len(arg.vecs)
              /\ \A i \in 1..Len(arg.vecs) : ResponseOfElement(out.items[i], p, i)
         [] OTHER ->
              /\ out.form = "tensor"
              /\ Len(out.items) = KeywordDim(arg.key)
              /\ \A i \in 1..Len(out.items) : Len(out.items[i]) = KeywordDim(arg.key)

\* C18: a call that ends without a validation error returns one entry per
\* argument, in argument order: an unwrapped response for a single vector, a list
\* of k responses in element order for a list or tuple of k vectors, k = 0 and
\* k = 1 included, and a k-by-k tensor for a keyword.
C18_OutputMirrorsArguments ==
    (cp_pc \in {"done", "error"} /\ cp_err.type # "ValidationError")
        => /\ cp_pc = "done"
           /\ Len(output) = Len(cp_args)
           /\ \A p \in 1..Len(cp_args) : MirrorsArgument(p)

\* the number of vectors the arguments before argument p put into the batch
Offset(p) == Len(ShapesOfArgs(p - 1))

\* the output entry of argument p is built from the responses at the batch
\* positions of that argument's own vectors
OwnResponses(p) ==
    LET out == output[p] IN
    IF out.form = "tensor"
    THEN \A i \in 1..Len(out.items) : \A j \in 1..Len(out.items[i]) :
             out.items[i][j].resp.idx = Offset(p) + j
    ELSE \A i \in 1..Len(out.items) : out.items[i].idx = Offset(p) + i

\* C19: a call that returns has invoked the CPHF solver exactly once, on all
\* projected vectors in descriptor order, and every output entry is built from the
\* responses at the batch positions of its own input vectors, a repeated keyword
\* included.
C19_OneSolveIndexCorrespondence ==
    cp_pc = "done"
        => /\ \E s \in SolveEvents :
                /\ SolveEvents = {s}
                /\ cp_log[s].vectors = vectors
                /\ Len(vectors) = Len(OrigShapes)
           /\ \A i \in 1..Len(responses) : responses[i].idx = i /\ responses[i].of = vectors[i]
           /\ \A p \in 1..Len(cp_args) : OwnResponses(p)

\* C20: in a call that returns, the entry of a keyword with k named vectors is a
\* k-by-k tensor whose entry (i, j) is -1 times the dot product of the projected,
\* scaled integral vector i of that keyword with the response solved for vector j
\* of that keyword.
C20_TensorEntries ==
    cp_pc = "done"
        => \A p \in 1..Len(cp_args) :
             cp_args[p].kind = "str"
                => LET k == KeywordDim(cp_args[p].key)
                       t == output[p].items
                   IN /\ output[p].form = "tensor"
                      /\ Len(t) = k
                      /\ \A i \in 1..k :
                           /\ Len(t[i]) = k
                           /\ \A j \in 1..k :
                                /\ t[i][j].coef = -1
                                /\ t[i][j].vec = vectors[Offset(p) + i]
                                /\ t[i][j].vec.proj
                                /\ t[i][j].resp.of = vectors[Offset(p) + j]

\* the dipole tensor has been returned after a user vector: its entry (1, 2)
\* pairs the x integrals with the response to the y integrals
C20_Witness ==
    /\ cp_pc = "done"
    /\ cp_args = <<VectorArg(MoShape(cp_wfn)), StrArg("DIPOLE_POLARIZABILITIES")>>
    /\ output[2].items[1][2].vec.name = <<"AO Mux">>
    /\ output[2].items[1][2].resp.of.name = <<"AO Muy">>
    /\ output[2].items[1][2].resp.idx = 3

\* C21: when a call has ended in a validation error, no integral matrix has been
\* fetched or scaled and no vector has been projected in that call.
C21_NoPartialWorkOnValidationError ==
    (cp_pc = "error" /\ cp_err.type = "ValidationError")
        => LoggedOps \cap {"fetch", "scale", "project"} = {}

\* the vectors a call holds: those of the batch and those the descriptors refer to
HeldVectors ==
    {vectors[i] : i \in 1..Len(vectors)}
    \cup UNION { {complete_dict[p].vectors[i] : i \in 1..Len(complete_dict[p].vectors)}
                 : p \in 1..Len(complete_dict) }

\* the list or tuple the caller passed as argument p is what the caller passed
CallerSeqUnchanged(p) ==
    cp_args[p].kind \in {"list", "tuple"}
        => complete_dict[p].vectors =
              [i \in 1..Len(cp_args[p].vecs) |-> UserVector(p, i, cp_args[p].vecs[i])]

\* C22: no vector is modified in place after it has been created (projection and
\* scaling make new vectors), and the caller's vectors and lists are as passed.
C22_NoInPlaceModification ==
    /\ \A v \in HeldVectors : v.writes = 0
    /\ \A p \in 1..Len(complete_dict) : CallerSeqUnchanged(p)

---------------------------------------------------------------------------
(***************************************************************************)
(* Properties of the per-irrep loop of tdscf_excitations                   *)
(***************************************************************************)

\* the positions in `calls` of the engine and solver calls made for irrep s
CallsFor(s) == {i \in 1..Len(calls) : calls[i].sym = s}

\* the loop has gone through the block of irrep s: it is behind it, or it ended in it
\* with a convergence error
BlockRun(s) ==
    \/ s < state_sym
    \/ pc = "error" /\ err.type = "TDSCFConvergenceError" /\ s = state_sym

\* C23: an irrep with a non-zero count n whose block has been run has seen, in this
\* order and once each, a reset for that irrep, a guess of 2n trial vectors and a
\* solver call with nroot = n, max_vecs_per_root = max_ss_vec // n and that guess;
\* an irrep with count 0 has seen no reset, no guess and no solver call.
C23_BlockProtocol ==
    \A s \in 0..(Len(singlets_per_irrep) - 1) :
        LET nstates == singlets_per_irrep[s + 1] IN
        (nstates.isint /\ pc # "idle")
          => IF nstates.v # 0 /\ BlockRun(s)
             THEN \E i \in 1..Len(calls) :
                     /\ CallsFor(s) = {i, i + 1, i + 2}
                     /\ calls[i].op = "reset"
                     /\ calls[i + 1].op = "guess"
                     /\ calls[i + 1].n = 2 * nstates.v
                     /\ calls[i + 2].op = "solve"
                     /\ calls[i + 2].n = nstates.v
                     /\ calls[i + 2].vecs = args.max_ss_vec \div nstates.v
                     /\ calls[i + 2].guess = i + 1
             ELSE CallsFor(s) = {}

\* a call has returned in which the first irrep had no state and the second had two
C23_Witness ==
    /\ pc = "done"
    /\ singlets_per_irrep = <<IntE(0), IntE(2)>>
    /\ Len(calls) = 3
    /\ calls[2].n = 4
    /\ calls[3].vecs = 25

\* the vector the solver returned for side `side` of root `root` of irrep `sym`,
\* after n rescalings by sqrt(2)
Rescaled(sym, root, side, n) == [sym |-> sym, root |-> root, side |-> side, scaled |-> n]

SolveCalls == {i \in 1..Len(calls) : calls[i].op = "solve"}

\* the solver's latest answer reported not-done
ReportedNotDone == ret_stats # <<>> /\ ~ret_stats[Len(ret_stats)].done

\* C25: the blocks are solved in ascending irrep index, the solver is called at most
\* once per irrep and so at most n_irrep times in a call, and once a block has
\* reported not-done the call has ended with that block's solver call as its last
\* reset, guess or solver call.
C25_OneAttemptNoRetry ==
    /\ \A i, j \in 1..Len(calls) : i < j => calls[i].sym <= calls[j].sym
    /\ \A i, j \in SolveCalls : i < j => calls[i].sym < calls[j].sym
    /\ Cardinality(SolveCalls) <= wfn.nirrep
    /\ ReportedNotDone
          => /\ pc = "error"
             /\ err.type = "TDSCFConvergenceError"
             /\ Len(calls) \in SolveCalls
             /\ \A i \in 1..Len(calls) : calls[i].sym <= state_sym
             /\ calls[Len(calls)].sym = state_sym

\* the second of four blocks reported not-done: two solver calls were made and the
\* third block, which has a state to find, was never started
C25_Witness ==
    /\ pc = "error"
    /\ ReportedNotDone
    /\ wfn.nirrep = 4
    /\ state_sym = 1
    /\ singlets_per_irrep[3] = IntE(1)
    /\ Cardinality(SolveCalls) = 2
    /\ Len(calls) = 6

---------------------------------------------------------------------------
(***************************************************************************)
(* Further properties of cpscf_linear_response                             *)
(***************************************************************************)

\* the vectors of the batch that come from a keyword
MintsPositions == {i \in 1..Len(vectors) : vectors[i].src = "mints"}
LogPositions(op) == {i \in 1..Len(cp_log) : cp_log[i].op = op}

\* C26: every integral vector fetched for a keyword carries the factor -2.0 exactly
\* once, every scaling happens before every projection, and a vector the caller
\* supplied carries no factor.
C26_KeywordVectorsPrescaled ==
    /\ \A i \in 1..Len(vectors) :
          vectors[i].scale = IF vectors[i].src = "mints" THEN -2 ELSE 1
    /\ cp_pc \notin {"idle", "start", "normalized"}
          => Cardinality(LogPositions("scale")) = Cardinality(MintsPositions)
    /\ \A i \in LogPositions("project"), j \in LogPositions("scale") : j < i
    /\ \A s \in SolveEvents : \A i \in 1..Len(cp_log[s].vectors) :
          cp_log[s].vectors[i].scale = IF cp_log[s].vectors[i].src = "mints" THEN -2 ELSE 1

\* an AO-basis vector of the caller and the dipole integrals have been solved for:
\* both were projected, only the integrals carry the factor
C26_Witness ==
    /\ cp_pc = "done"
    /\ cp_args = <<VectorArg(AoShape(cp_wfn)), StrArg("DIPOLE_POLARIZABILITIES")>>
    /\ vectors[1].proj /\ vectors[1].scale = 1
    /\ vectors[2].proj /\ vectors[2].scale = -2

\* the number of user vectors in the first k arguments
RECURSIVE UserCount(_)
UserCount(k) ==
    IF k = 0 THEN 0
    ELSE UserCount(k - 1) + (IF cp_args[k].kind = "str" THEN 0 ELSE Len(cp_args[k].vecs))

\* the user vectors of the call: argument position and element position
UserSlots ==
    {<<p, i>> \in (1..Len(complete_dict)) \X (1..(MaxVecs + 1)) :
        cp_args[p].kind # "str" /\ i <= Len(cp_args[p].vecs)}
NameOfSlot(s) == complete_dict[s[1]].vector_names[s[2]]
KeywordVectorNames ==
    UNION { {d.vector_names[i] : i \in 1..Len(d.vector_names)}
            : d \in {dipole, quadrupole, traceless_quadrupole} }

\* C30: the generated names of the user vectors of a call ("User Vector n" for a
\* single vector, "User Vector n_i" for element i of a list, n the number of user
\* vectors in the arguments before) are pairwise distinct and differ from every
\* keyword vector name, and what a returning call hands back for a user vector is
\* the response solved for that vector.
C30_UserNamesDistinct ==
    /\ \A s \in UserSlots :
          /\ NameOfSlot(s) = IF cp_args[s[1]].kind = "vector"
                             THEN <<"User Vector ">> \o Str(UserCount(s[1] - 1))
                             ELSE <<"User Vector ">> \o Str(UserCount(s[1] - 1))
                                    \o <<"_">> \o Str(s[2] - 1)
          /\ NameOfSlot(s) \notin KeywordVectorNames
          /\ \A t \in UserSlots : s # t => NameOfSlot(s) # NameOfSlot(t)
    /\ cp_pc = "done"
          => \A s \in UserSlots :
                /\ responses_d[NameOfSlot(s)].idx = Offset(s[1]) + s[2]
                /\ responses_d[NameOfSlot(s)].of.arg = s[1]
                /\ responses_d[NameOfSlot(s)].of.elem = s[2]
                /\ output[s[1]].items[s[2]] = responses_d[NameOfSlot(s)]

\* a list of two vectors, then a single vector: three names, three own responses
C30_Witness ==
    /\ cp_pc = "done"
    /\ cp_args = <<SeqArg("list", <<MoShape(cp_wfn), MoShape(cp_wfn)>>), VectorArg(MoShape(cp_wfn))>>
    /\ vector_names = << <<"User Vector ", "0", "_", "0">>, <<"User Vector ", "0", "_", "1">>,
                         <<"User Vector ", "2">> >>
    /\ output[2].items[1].idx = 3

---------------------------------------------------------------------------
(***************************************************************************)
(* free_atom_volumes, psi4/driver/p4util/prop_util.py lines 37-139         *)
(***************************************************************************)

\* largest number of atoms of a modelled molecule
MaxAtoms == 3

\* lines 54-60: the reference number of unpaired electrons, by atomic number
reference_S_table ==
    << 0, 1, 0, 1, 0, 1, 2, 3, 2, 1, 0, 1, 0, 1, 2, 3, 2, 1, 0, 1,
       0, 1, 2, 3, 6, 5, 4, 3, 2, 1, 0, 1, 2, 3, 2, 1, 0, 1, 0, 1,
       2, 5, 6, 5, 4, 3, 0, 1, 0, 1, 2, 3, 2, 1, 0, 1, 0, 1, 0, 3,
       4, 5, 6, 7, 8, 5, 4, 3, 2, 1, 0, 1, 2, 3, 4, 5, 4, 3, 2, 1,
       0, 1, 2, 3, 2, 1, 0 >>
\* reference_S[a_z], a python list indexed from 0
reference_S(a_z) == reference_S_table[a_z + 1]

\* the atoms of the modelled molecules: mol.symbol, mol.Z, mol.basis_on_atom
Atoms == { [symbol |-> "H", Z |-> 1, basis |-> "cc-pvdz"],
           [symbol |-> "He", Z |-> 2, basis |-> "cc-pvdz"],
           [symbol |-> "O", Z |-> 8, basis |-> "cc-pvdz"] }

\* the values of the global option REFERENCE a caller may have set
References == {"RHF", "UHF", "ROHF"}

\* optproc.OptionsState(['REFERENCE']): remembers the value the option has now
OptionsState(ref) == [bound |-> TRUE, value |-> ref]
\* OptionsState.restore(): the option gets back the remembered value
Restore(stash) == stash.value

\* lines 41-84: read the option, collect the atoms; the inner loop of lines 75-80
\* only continues, so every atom gets an entry of atom_ids, keyed by its index
FavStart ==
    /\ fa_pc = "start"
    /\ UNCHANGED <<tdscf_vars, cpscf_vars>>
    /\ user_ref' = REFERENCE
    /\ atom_ids' = mol
    /\ atom_pos' = 0
    /\ fa_pc' = "loop"
    /\ UNCHANGED <<mol, REFERENCE, optstash, active_mol, volumes, fa_err>>

\* lines 100-104: UHF for an atom with unpaired electrons, RHF for a singlet
AtomReference(a_z) == IF reference_S(a_z) # 0 THEN "UHF" ELSE "RHF"

\* lines 86-132, one pass of the loop in which the free-atom computation succeeds
FreeAtom ==
    /\ fa_pc = "loop"
    /\ UNCHANGED <<tdscf_vars, cpscf_vars>>
    /\ atom_pos < Len(atom_ids)
    /\ LET info == atom_ids[atom_pos + 1] IN
         /\ optstash' = OptionsState(REFERENCE)
         /\ REFERENCE' = AtomReference(info.Z)
         /\ active_mol' = info.symbol
         /\ volumes' = volumes \cup {info.symbol}
    /\ atom_pos' = atom_pos + 1
    /\ UNCHANGED <<fa_pc, mol, user_ref, atom_ids, fa_err>>

\* lines 86-120, one pass of the loop in which psi4.energy raises
FreeAtomFails ==
    /\ fa_pc = "loop"
    /\ UNCHANGED <<tdscf_vars, cpscf_vars>>
    /\ atom_pos < Len(atom_ids)
    /\ LET info == atom_ids[atom_pos + 1] IN
         /\ optstash' = OptionsState(REFERENCE)
         /\ REFERENCE' = AtomReference(info.Z)
         /\ active_mol' = info.symbol
    /\ fa_pc' = "error"
    /\ fa_err' = "ConvergenceError"
    /\ UNCHANGED <<mol, user_ref, atom_ids, atom_pos, volumes>>

\* lines 135-139: the option is set to user_ref, then optstash.restore() runs; with
\* no atom the name optstash was never bound
FavFinish ==
    /\ fa_pc = "loop"
    /\ UNCHANGED <<tdscf_vars, cpscf_vars>>
    /\ atom_pos = Len(atom_ids)
    /\ IF optstash.bound
       THEN /\ REFERENCE' = Restore(optstash)
            /\ fa_pc' = "done"
            /\ UNCHANGED fa_err
       ELSE /\ REFERENCE' = user_ref
            /\ fa_pc' = "error"
            /\ fa_err' = "UnboundLocalError"
    /\ UNCHANGED <<mol, user_ref, atom_ids, atom_pos, optstash, active_mol, volumes>>

\* a call free_atom_volumes(wfn)
InitFav ==
    /\ TdscfIdle
    /\ CpscfIdle
    /\ fa_pc = "start"
    /\ mol \in SeqsUpTo(Atoms, MaxAtoms)
    /\ REFERENCE \in References
    /\ user_ref = ""
    /\ atom_ids = <<>>
    /\ atom_pos = 0
    /\ optstash = Unbound
    /\ active_mol = "parent"
    /\ volumes = {}
    /\ fa_err = ""

NextFav ==
    \/ FavStart
    \/ FreeAtom
    \/ FreeAtomFails
    \/ FavFinish

SpecFav == InitFav /\ [][NextFav]_vars

\* C27: when free_atom_volumes has returned, the global option REFERENCE has the
\* value it had before the call, whatever the number of atoms.
C27_ReferenceRestoredOnReturn ==
    fa_pc = "done" => REFERENCE = user_ref

\* C28: on every way out of free_atom_volumes, the return and the exceptions alike,
\* the global option REFERENCE has the value it had before the call.
C28_ReferenceRestoredOnEveryExit ==
    fa_pc \in {"done", "error"} => REFERENCE = user_ref

---------------------------------------------------------------------------
(***************************************************************************)
(* tdscf_excitations for requests whose counts may be negative             *)
(***************************************************************************)

\* the most negative count of a modelled request
MaxNeg == 2

\* the numbers of irreps of these calls
SignedIrreps == {1, 2}

\* the values of `states`: ints and lists of the right length, negative counts included
SignedStatesValues(nirrep) ==
    {StatesInt(k) : k \in (0 - MaxNeg)..1}
    \cup {StatesList(s) : s \in [1..nirrep -> {IntE(k) : k \in (0 - MaxNeg)..1} \cup {StrE}]}

\* a call tdscf_excitations(wfn, states=..., tda=...) on a Hartree-Fock reference
InitSigned ==
    /\ CpscfIdle
    /\ FavIdle
    /\ pc = "start"
    /\ wfn \in UNION { [nirrep : {n}, restricted : BOOLEAN, functional : {"HF"},
                        energy : RefEnergies, G_gs : {0}] : n \in SignedIrreps }
    /\ args \in UNION { [states : SignedStatesValues(n), triplets : {"none"},
                         tda : BOOLEAN, guess : {denominators}, max_ss_vec : MaxSsVecs]
                        : n \in {wfn.nirrep} }
    /\ singlets_per_irrep = <<>>
    /\ state_sym = 0
    /\ engine = NoEngine
    /\ calls = <<>>
    /\ ret_stats = <<>>
    /\ results = <<>>
    /\ solver_results = <<>>
    /\ wfn_vars = {}
    /\ err = NoErr

SpecSigned == InitSigned /\ [][Next]_vars

\* the sum of the per-irrep counts
RECURSIVE SumCounts(_)
SumCounts(s) == IF s = <<>> THEN 0 ELSE Head(s).v + SumCounts(Tail(s))

\* C29: in a call that has passed validation every solver call has nroot >= 1 and
\* a guess of 2 * nroot >= 2 trial vectors, and a call that returns returns as many
\* records as the per-irrep counts add up to; no negative count reaches the solver.
C29_PositiveBlocks ==
    /\ \A i \in SolveCalls :
          /\ calls[i].n >= 1
          /\ calls[calls[i].guess].op = "guess"
          /\ calls[calls[i].guess].n = 2 * calls[i].n
          /\ calls[calls[i].guess].n >= 2
    /\ pc = "done" => Len(solver_results) = SumCounts(singlets_per_irrep)

====
